---- MODULE Spec2Model ----
(***************************************************************************)
(* Model of stix2.equivalence.pattern (equivalent_patterns,                *)
(* find_equivalent_patterns, _get_pattern_canonicalizer) and of            *)
(* stix2.markings.is_marked.                                               *)
(*                                                                         *)
(* A pattern text is a sequence of tokens.  A pattern AST is a record      *)
(*   [op : {"LEAF","AND","OR"}, comp : Seq(Nat), kids : Seq(AST)]          *)
(* where a LEAF is one observation "[ ... ]" whose comparison expression   *)
(* is the conjunction of the property tests listed in comp, and a compound *)
(* is an AND / OR of observation expressions.                              *)
(***************************************************************************)
EXTENDS Integers, Sequences, FiniteSets, TLC

\* ------------------------------------------------------------------------
\* Bounds of the model
\* ------------------------------------------------------------------------
MaxCands == 2

MaxSettleIter == 2

NumThreads == 3

\* ------------------------------------------------------------------------
\* Pattern ASTs
\* ------------------------------------------------------------------------
Leaf(c) == [op |-> "LEAF", comp |-> c, kids |-> <<>>]

Node(o, ks) == [op |-> o, comp |-> <<>>, kids |-> ks]

NoTree == Leaf(<<>>)

Collapse(o, ks) == IF Len(ks) = 1 THEN ks[1] ELSE Node(o, ks)

OtherOp(o) == IF o = "AND" THEN "OR" ELSE "AND"

\* ------------------------------------------------------------------------
\* The parser: pattern_visitor.create_pattern_object
\*   observations := andExpr ("OR" andExpr)*
\*   andExpr      := primary ("AND" primary)*
\*   primary      := "[" ptest ("AND" ptest)* "]"  |  "(" observations ")"
\* Binary operators are left associative and give binary compounds.
\* ------------------------------------------------------------------------
PropId == ("p1" :> 1) @@ ("p2" :> 2) @@ ("p3" :> 3)

Tok(toks, pos) == IF pos <= Len(toks) THEN toks[pos] ELSE "EOF"

ParseFail == [ok |-> FALSE, ast |-> NoTree, comp |-> <<>>, pos |-> 0]

RECURSIVE ParseCompTail(_, _, _)
ParseCompTail(toks, acc, pos) ==
    IF Tok(toks, pos) = "AND"
    THEN IF Tok(toks, pos + 1) \in DOMAIN PropId
         THEN ParseCompTail(toks, Append(acc, PropId[Tok(toks, pos + 1)]), pos + 2)
         ELSE ParseFail
    ELSE [ok |-> TRUE, ast |-> NoTree, comp |-> acc, pos |-> pos]

ParseComp(toks, pos) ==
    IF Tok(toks, pos) \in DOMAIN PropId
    THEN ParseCompTail(toks, <<PropId[Tok(toks, pos)]>>, pos + 1)
    ELSE ParseFail

RECURSIVE ParseOr(_, _)
RECURSIVE ParseOrTail(_, _, _)
RECURSIVE ParseAnd(_, _)
RECURSIVE ParseAndTail(_, _, _)
RECURSIVE ParsePrimary(_, _)

ParsePrimary(toks, pos) ==
    IF Tok(toks, pos) = "["
    THEN LET c == ParseComp(toks, pos + 1)
         IN  IF c.ok /\ Tok(toks, c.pos) = "]"
             THEN [ok |-> TRUE, ast |-> Leaf(c.comp), comp |-> <<>>, pos |-> c.pos + 1]
             ELSE ParseFail
    ELSE IF Tok(toks, pos) = "("
    THEN LET e == ParseOr(toks, pos + 1)
         IN  IF e.ok /\ Tok(toks, e.pos) = ")"
             THEN [ok |-> TRUE, ast |-> e.ast, comp |-> <<>>, pos |-> e.pos + 1]
             ELSE ParseFail
    ELSE ParseFail

ParseAndTail(toks, left, pos) ==
    IF Tok(toks, pos) = "AND"
    THEN LET r == ParsePrimary(toks, pos + 1)
         IN  IF r.ok
             THEN ParseAndTail(toks, Node("AND", <<left, r.ast>>), r.pos)
             ELSE ParseFail
    ELSE [ok |-> TRUE, ast |-> left, comp |-> <<>>, pos |-> pos]

ParseAnd(toks, pos) ==
    LET l == ParsePrimary(toks, pos)
    IN  IF l.ok THEN ParseAndTail(toks, l.ast, l.pos) ELSE ParseFail

ParseOrTail(toks, left, pos) ==
    IF Tok(toks, pos) = "OR"
    THEN LET r == ParseAnd(toks, pos + 1)
         IN  IF r.ok
             THEN ParseOrTail(toks, Node("OR", <<left, r.ast>>), r.pos)
             ELSE ParseFail
    ELSE [ok |-> TRUE, ast |-> left, comp |-> <<>>, pos |-> pos]

ParseOr(toks, pos) ==
    LET l == ParseAnd(toks, pos)
    IN  IF l.ok THEN ParseOrTail(toks, l.ast, l.pos) ELSE ParseFail

\* create_pattern_object(pattern, version): the AST, or a ParseError (ok = FALSE)
create_pattern_object(text) ==
    LET r == ParseOr(text, 1)
    IN  IF r.ok /\ r.pos = Len(text) + 1
        THEN [ok |-> TRUE, ast |-> r.ast]
        ELSE [ok |-> FALSE, ast |-> NoTree]

Parseable(text) == create_pattern_object(text).ok

\* ------------------------------------------------------------------------
\* The comparator: observation_expression_cmp, a three-way total order
\* ------------------------------------------------------------------------
CmpInt(a, b) == IF a < b THEN -1 ELSE IF a > b THEN 1 ELSE 0

RECURSIVE CmpIntSeq(_, _)
CmpIntSeq(s, t) ==
    IF s = <<>> THEN (IF t = <<>> THEN 0 ELSE -1)
    ELSE IF t = <<>> THEN 1
    ELSE LET c == CmpInt(Head(s), Head(t))
         IN  IF c # 0 THEN c ELSE CmpIntSeq(Tail(s), Tail(t))

KindRank(t) == IF t.op = "LEAF" THEN 0 ELSE 1

OpRank(o) == IF o = "AND" THEN 0 ELSE 1

RECURSIVE observation_expression_cmp(_, _)
RECURSIVE CmpKids(_, _)

CmpKids(s, t) ==
    IF s = <<>> THEN (IF t = <<>> THEN 0 ELSE -1)
    ELSE IF t = <<>> THEN 1
    ELSE LET c == observation_expression_cmp(Head(s), Head(t))
         IN  IF c # 0 THEN c ELSE CmpKids(Tail(s), Tail(t))

observation_expression_cmp(a, b) ==
    IF KindRank(a) # KindRank(b) THEN CmpInt(KindRank(a), KindRank(b))
    ELSE IF a.op = "LEAF" THEN CmpIntSeq(a.comp, b.comp)
    ELSE IF a.op # b.op THEN CmpInt(OpRank(a.op), OpRank(b.op))
    ELSE CmpKids(a.kids, b.kids)

\* ------------------------------------------------------------------------
\* The passes.  Each returns [ast, changed].
\* ------------------------------------------------------------------------
RECURSIVE InsertInt(_, _)
InsertInt(x, s) ==
    IF s = <<>> THEN <<x>>
    ELSE IF x = Head(s) THEN s
    ELSE IF x < Head(s) THEN <<x>> \o s
    ELSE <<Head(s)>> \o InsertInt(x, Tail(s))

RECURSIVE SortDedupInts(_)
SortDedupInts(s) ==
    IF s = <<>> THEN <<>> ELSE InsertInt(Head(s), SortDedupInts(Tail(s)))

RECURSIVE InsertTree(_, _)
InsertTree(x, s) ==
    IF s = <<>> THEN <<x>>
    ELSE LET c == observation_expression_cmp(x, Head(s))
         IN  IF c = 0 THEN s
             ELSE IF c < 0 THEN <<x>> \o s
             ELSE <<Head(s)>> \o InsertTree(x, Tail(s))

RECURSIVE SortDedupTrees(_)
SortDedupTrees(s) ==
    IF s = <<>> THEN <<>> ELSE InsertTree(Head(s), SortDedupTrees(Tail(s)))

AnyChanged(rs) == \E i \in DOMAIN rs : rs[i].changed

Asts(rs) == [i \in DOMAIN rs |-> rs[i].ast]

\* CanonicalizeComparisonExpressionsTransformer
RECURSIVE CanonicalizeComparisonExpressions(_)
CanonicalizeComparisonExpressions(t) ==
    IF t.op = "LEAF"
    THEN LET c == SortDedupInts(t.comp)
         IN  [ast |-> Leaf(c), changed |-> c # t.comp]
    ELSE LET rs == [i \in DOMAIN t.kids |-> CanonicalizeComparisonExpressions(t.kids[i])]
         IN  [ast |-> Node(t.op, Asts(rs)), changed |-> AnyChanged(rs)]

\* the children of ks, those with operator o replaced by their own children
RECURSIVE Inline(_, _)
Inline(o, ks) ==
    IF ks = <<>> THEN <<>>
    ELSE (IF Head(ks).op = o THEN Head(ks).kids ELSE <<Head(ks)>>) \o Inline(o, Tail(ks))

\* FlattenTransformer
RECURSIVE Flatten(_)
Flatten(t) ==
    IF t.op = "LEAF" THEN [ast |-> t, changed |-> FALSE]
    ELSE LET rs == [i \in DOMAIN t.kids |-> Flatten(t.kids[i])]
             ks == Asts(rs)
         IN  [ast |-> Collapse(t.op, Inline(t.op, ks)),
              changed |-> AnyChanged(rs) \/ (\E i \in DOMAIN ks : ks[i].op = t.op)]

\* OrderDedupeTransformer
RECURSIVE OrderDedupe(_)
OrderDedupe(t) ==
    IF t.op = "LEAF" THEN [ast |-> t, changed |-> FALSE]
    ELSE LET rs == [i \in DOMAIN t.kids |-> OrderDedupe(t.kids[i])]
             ks == Asts(rs)
             sorted == SortDedupTrees(ks)
         IN  [ast |-> Collapse(t.op, sorted),
              changed |-> AnyChanged(rs) \/ sorted # ks]

\* child i of ks is absorbed under operator o: it is a compound of the other
\* operator one of whose operands is another child of ks
Absorbed(o, ks, i) ==
    /\ ks[i].op = OtherOp(o)
    /\ \E j \in DOMAIN ks : /\ j # i
                            /\ \E k \in DOMAIN ks[i].kids :
                                  observation_expression_cmp(ks[j], ks[i].kids[k]) = 0

RECURSIVE KeepFrom(_, _, _)
KeepFrom(o, ks, i) ==
    IF i > Len(ks) THEN <<>>
    ELSE (IF Absorbed(o, ks, i) THEN <<>> ELSE <<ks[i]>>) \o KeepFrom(o, ks, i + 1)

\* AbsorptionTransformer
RECURSIVE Absorption(_)
Absorption(t) ==
    IF t.op = "LEAF" THEN [ast |-> t, changed |-> FALSE]
    ELSE LET rs == [i \in DOMAIN t.kids |-> Absorption(t.kids[i])]
             ks == Asts(rs)
         IN  [ast |-> Collapse(t.op, KeepFrom(t.op, ks, 1)),
              changed |-> AnyChanged(rs) \/ (\E i \in DOMAIN ks : Absorbed(t.op, ks, i))]

\* every choice of one clause from each child: an OR child offers its
\* operands, any other child offers itself
RECURSIVE Cross(_)
RECURSIVE PrependAll(_, _)
RECURSIVE CrossWith(_, _)

PrependAll(x, combos) ==
    IF combos = <<>> THEN <<>>
    ELSE << <<x>> \o Head(combos) >> \o PrependAll(x, Tail(combos))

CrossWith(opts, combos) ==
    IF opts = <<>> THEN <<>>
    ELSE PrependAll(Head(opts), combos) \o CrossWith(Tail(opts), combos)

Cross(ks) ==
    IF ks = <<>> THEN << <<>> >>
    ELSE CrossWith(IF Head(ks).op = "OR" THEN Head(ks).kids ELSE <<Head(ks)>>,
                   Cross(Tail(ks)))

\* DNFTransformer
RECURSIVE DNF(_)
DNF(t) ==
    IF t.op = "LEAF" THEN [ast |-> t, changed |-> FALSE]
    ELSE LET rs == [i \in DOMAIN t.kids |-> DNF(t.kids[i])]
             ks == Asts(rs)
             hasOr == \E i \in DOMAIN ks : ks[i].op = "OR"
         IN  IF t.op = "OR"
             THEN [ast |-> Node("OR", Inline("OR", ks)),
                   changed |-> AnyChanged(rs) \/ hasOr]
             ELSE IF hasOr
             THEN LET combos == Cross(ks)
                  IN  [ast |-> Node("OR", [i \in DOMAIN combos |-> Collapse("AND", combos[i])]),
                       changed |-> TRUE]
             ELSE [ast |-> Node("AND", ks), changed |-> AnyChanged(rs)]

\* ------------------------------------------------------------------------
\* The combinators.  A transformer is a record [kind, subs]; transform()
\* returns [ast, changed, log, err], where log lists, in order, the basic
\* passes that ran and the Settle invocations that returned, each with the
\* changed flag and the tree it produced.
\* ------------------------------------------------------------------------
Basic(k) == [kind |-> k, subs |-> <<>>]

ChainTransformer(ps) == [kind |-> "Chain", subs |-> ps]

SettleTransformer(p) == [kind |-> "Settle", subs |-> <<p>>]

ApplyBasic(k, t) ==
    CASE k = "CanonComp" -> CanonicalizeComparisonExpressions(t)
      [] k = "Flatten" -> Flatten(t)
      [] k = "OrderDedupe" -> OrderDedupe(t)
      [] k = "Absorption" -> Absorption(t)
      [] k = "DNF" -> DNF(t)

RECURSIVE Transform(_, _)
RECURSIVE ChainRun(_, _, _, _)
RECURSIVE SettleRun(_, _, _, _, _)

\* ChainTransformer.transform: thread the tree through the passes in order,
\* OR-ing their changed flags
ChainRun(ps, t, changed, log) ==
    IF ps = <<>> THEN [ast |-> t, changed |-> changed, log |-> log, err |-> "none"]
    ELSE LET r == Transform(Head(ps), t)
         IN  IF r.err # "none"
             THEN [ast |-> r.ast, changed |-> changed, log |-> log \o r.log, err |-> r.err]
             ELSE ChainRun(Tail(ps), r.ast, changed \/ r.changed, log \o r.log)

\* SettleTransformer.transform: apply the wrapped pass until it reports no
\* change; more than MaxSettleIter applications is a NonConvergenceError
SettleRun(p, t, n, changed, log) ==
    IF n >= MaxSettleIter
    THEN [ast |-> t, changed |-> changed, log |-> log, err |-> "NonConvergenceError"]
    ELSE LET r == Transform(p, t)
         IN  IF r.err # "none"
             THEN [ast |-> r.ast, changed |-> changed, log |-> log \o r.log, err |-> r.err]
             ELSE IF r.changed
             THEN SettleRun(p, r.ast, n + 1, TRUE, log \o r.log)
             ELSE [ast |-> r.ast, changed |-> changed,
                   log |-> log \o r.log
                             \o <<[stage |-> "Settle", changed |-> changed, out |-> r.ast]>>,
                   err |-> "none"]

Transform(p, t) ==
    IF p.kind = "Chain" THEN ChainRun(p.subs, t, FALSE, <<>>)
    ELSE IF p.kind = "Settle" THEN SettleRun(p.subs[1], t, 0, FALSE, <<>>)
    ELSE LET r == ApplyBasic(p.kind, t)
         IN  [ast |-> r.ast, changed |-> r.changed,
              log |-> <<[stage |-> p.kind, changed |-> r.changed, out |-> r.ast]>>,
              err |-> "none"]

\* ------------------------------------------------------------------------
\* _get_pattern_canonicalizer: the pipeline it constructs
\* ------------------------------------------------------------------------
obs_simplify ==
    ChainTransformer(<<Basic("Flatten"), Basic("OrderDedupe"), Basic("Absorption")>>)

\* variant: the simplification chain is used without the Settle wrapper
obs_simplify_once ==
    ChainTransformer(<<Basic("Flatten"), Basic("OrderDedupe"), Basic("Absorption")>>)

obs_settle_simplify == SettleTransformer(obs_simplify)

\* variant: DNF runs before the first Settle instead of between the two
NewPatternCanonicalizerDNFFirst ==
    ChainTransformer(<<Basic("CanonComp"), Basic("DNF"), obs_settle_simplify,
                       obs_settle_simplify>>)

NewPatternCanonicalizer ==
    ChainTransformer(<<Basic("CanonComp"), obs_settle_simplify, Basic("DNF"),
                       obs_settle_simplify>>)

\* ------------------------------------------------------------------------
\* Pattern texts the operations are run on
\* ------------------------------------------------------------------------
O1 == <<"[", "p1", "]">>

O2 == <<"[", "p2", "]">>

O3 == <<"[", "p3", "]">>

Corpus ==
    { O1,
      O1 \o <<"OR">> \o O1,
      O1 \o <<"AND">> \o O2,
      O2 \o <<"AND">> \o O1,
      <<"[", "p2", "AND", "p1", "]">>,
      O1 \o <<"AND", "(">> \o O1 \o <<"OR">> \o O2 \o <<")">>,
      <<"(">> \o O1 \o <<"OR">> \o O2 \o <<")", "AND">> \o O3,
      <<"(">> \o O1 \o <<"AND">> \o O3 \o <<")", "OR", "(">> \o O2 \o <<"AND">> \o O3 \o <<")">>,
      O1 \o <<"OR", "(", "(">> \o O2 \o <<"OR">> \o O3 \o <<")", "AND", "(">>
         \o O2 \o <<"OR">> \o O3 \o <<")", ")">>,
      O1 \o <<"AND">> }

\* ------------------------------------------------------------------------
\* State
\* ------------------------------------------------------------------------
VARIABLES
    g_pattern_canonicalizer,  \* the module global _pattern_canonicalizer
    \* one find_equivalent_patterns generator and its caller
    search_pattern,           \* argument: the search pattern text
    patterns,                 \* argument: the candidate texts
    pc,                       \* position of the generator
    idx,                      \* number of candidates pulled from patterns
    pattern,                  \* loop variable: the candidate last pulled
    search_pattern_ast,
    canon_search_pattern_ast,
    pattern_ast,
    canon_pattern_ast,
    pattern_canonicalizer,    \* the local of that name
    yielded,                  \* the values yielded so far, in order
    out,                      \* what the last next() delivered to the caller
    nNext,                    \* number of next() calls by the caller
    nSearchCanon,             \* pipeline invocations on the search pattern
    nCandCanon,               \* pipeline invocations on candidates
    stageLog,                 \* the passes run by the last pipeline invocation
    \* equivalent_patterns called on (pattern1, pattern2), then swapped
    pattern1, pattern2,       \* arguments
    eq_round,                 \* 1: the call on the pair, 2: on the swapped pair
    eq_pc,                    \* position in equivalent_patterns
    patt_ast1, patt_ast2,     \* the locals of these names
    eq_c1, eq_c2,             \* what the two transform calls gave
    eq_ret,                   \* the value returned, or the exception raised
    eq_prev,                  \* eq_ret of round 1
    \* threads inside _get_pattern_canonicalizer; a pipeline object is known
    \* by its identity 1, 2, ... and 0 is None
    g_id,                     \* identity of the object the global refers to
    t_pc,                     \* position of each thread
    t_new,                    \* the object a thread constructed, not yet stored
    t_ret,                    \* the object returned to each thread
    nConstructed,             \* pipelines constructed so far
    nAssigned,                \* assignments to the global so far
    \* one call of markings.is_marked
    object_marking_refs,      \* obj: its object level markings
    granular_markings,        \* obj: <<selector, marking_ref>> pairs
    marking, selectors, inherited, descendants,
    m_pc, m_result

findVars == <<search_pattern, patterns, pc, idx, pattern, search_pattern_ast,
              canon_search_pattern_ast, pattern_ast, canon_pattern_ast,
              pattern_canonicalizer, yielded, out, nNext, nSearchCanon,
              nCandCanon, stageLog>>

raceVars == <<g_id, t_pc, t_new, t_ret, nConstructed, nAssigned>>

markVars == <<object_marking_refs, granular_markings, marking, selectors, inherited,
              descendants, m_pc, m_result>>

equivVars == <<pattern1, pattern2, eq_round, eq_pc, patt_ast1, patt_ast2, eq_c1,
               eq_c2, eq_ret, eq_prev>>

NoCanonicalizer == [kind |-> "None", subs |-> <<>>]

MaxNext == MaxCands + 2

CandidateLists == UNION {[1..n -> Corpus] : n \in 0..MaxCands}

\* _get_pattern_canonicalizer run without interruption: the pipeline it
\* returns, which is also the value of the global afterwards
get_pattern_canonicalizer(g) ==
    IF g = NoCanonicalizer THEN NewPatternCanonicalizer ELSE g

ReturnValueOrLess(result) == result <= 0

\* line 86: return result == 0
ReturnValue(result) == result = 0

MatchesOrLess(result) == result <= 0

\* line 127: if result == 0
Matches(result) == result = 0

\* an exception leaves equivalent_patterns
EquivRaised(e, g, c1, c2) ==
    [ret |-> e, g |-> g, log1 |-> c1.log, log2 |-> c2.log,
     canon1 |-> c1.ast, canon2 |-> c2.ast]

NotRun == [ast |-> NoTree, changed |-> FALSE, log |-> <<>>, err |-> "none"]

\* lines 84-86, given the results of the two transform calls
EquivCompare(c1, c2, canonicalizer) ==
    IF c1.err # "none" THEN EquivRaised(c1.err, canonicalizer, c1, NotRun)
    ELSE IF c2.err # "none" THEN EquivRaised(c2.err, canonicalizer, c1, c2)
    ELSE [ret |-> IF ReturnValue(observation_expression_cmp(c1.ast, c2.ast))
                  THEN "True" ELSE "False",
          g |-> canonicalizer, log1 |-> c1.log, log2 |-> c2.log,
          canon1 |-> c1.ast, canon2 |-> c2.ast]

\* lines 80-82, given the results of the two parser calls; transform of the
\* second pattern is not reached when that of the first raises
EquivCanonicalize(a1, a2, g, canonicalizer) ==
    IF ~a1.ok \/ ~a2.ok THEN EquivRaised("ParseError", g, NotRun, NotRun)
    ELSE EquivCompare(Transform(canonicalizer, a1.ast),
                      Transform(canonicalizer, a2.ast), canonicalizer)

\* equivalent_patterns(pattern1, pattern2) run with the global equal to g
equivalent_patterns(p1, p2, g) ==
    EquivCanonicalize(create_pattern_object(p1), create_pattern_object(p2), g,
                      get_pattern_canonicalizer(g))

\* ------------------------------------------------------------------------
\* find_equivalent_patterns: the generator and its caller
\* ------------------------------------------------------------------------
FindIdle ==
    /\ pc = "idle" /\ idx = 0 /\ pattern = <<>>
    /\ search_pattern_ast = NoTree /\ canon_search_pattern_ast = NoTree
    /\ pattern_ast = NoTree /\ canon_pattern_ast = NoTree
    /\ pattern_canonicalizer = NoCanonicalizer
    /\ yielded = <<>> /\ out = "none" /\ nNext = 0
    /\ nSearchCanon = 0 /\ nCandCanon = 0 /\ stageLog = <<>>

EquivIdle ==
    /\ eq_round = 1 /\ eq_pc = "start" /\ eq_ret = "none" /\ eq_prev = "none"
    /\ patt_ast1 = NoTree /\ patt_ast2 = NoTree /\ eq_c1 = NotRun /\ eq_c2 = NotRun

Threads == 1..NumThreads

RaceIdle ==
    /\ g_id = 0 /\ nConstructed = 0 /\ nAssigned = 0
    /\ t_pc = [t \in Threads |-> "start"]
    /\ t_new = [t \in Threads |-> 0]
    /\ t_ret = [t \in Threads |-> 0]

MarkIdle ==
    /\ object_marking_refs = {} /\ granular_markings = {} /\ marking = {}
    /\ selectors = {} /\ inherited = FALSE /\ descendants = FALSE
    /\ m_pc = "idle" /\ m_result = FALSE

InitFind ==
    /\ g_pattern_canonicalizer = NoCanonicalizer
    /\ search_pattern \in Corpus
    /\ patterns \in CandidateLists
    /\ FindIdle
    /\ pattern1 = <<>> /\ pattern2 = <<>> /\ EquivIdle
    /\ RaceIdle
    /\ MarkIdle

Suspended == pc \in {"created", "yielded"}

Finished == pc \in {"done", "error"}

Running == pc \notin {"idle", "created", "yielded", "done", "error"}

\* the call: a generator function returns a generator object without running
\* any of its body
CallFind ==
    /\ pc = "idle"
    /\ pc' = "created"
    /\ UNCHANGED <<g_pattern_canonicalizer, search_pattern, patterns, idx, pattern,
                   search_pattern_ast, canon_search_pattern_ast, pattern_ast,
                   canon_pattern_ast, pattern_canonicalizer, yielded, out, nNext,
                   nSearchCanon, nCandCanon, stageLog, equivVars, raceVars, markVars>>

\* the caller's next(): resumes the body at its start or after the yield; on
\* a generator that returned or raised it is StopIteration
NextCall ==
    /\ nNext < MaxNext
    /\ \/ pc = "created" /\ pc' = "parse_search" /\ out' = "none"
       \/ pc = "yielded" /\ pc' = "loop" /\ out' = "none"
       \/ Finished /\ pc' = pc /\ out' = "StopIteration"
    /\ nNext' = nNext + 1
    /\ UNCHANGED <<g_pattern_canonicalizer, search_pattern, patterns, idx, pattern,
                   search_pattern_ast, canon_search_pattern_ast, pattern_ast,
                   canon_pattern_ast, pattern_canonicalizer, yielded,
                   nSearchCanon, nCandCanon, stageLog, equivVars, raceVars, markVars>>

\* variant: a malformed search pattern is not reported before the scan
ParseSearchDeferred ==
    /\ pc = "parse_search"
    /\ search_pattern_ast' = create_pattern_object(search_pattern).ast
    /\ pc' = "get_canonicalizer"
    /\ UNCHANGED <<g_pattern_canonicalizer, search_pattern, patterns, idx, pattern,
                   canon_search_pattern_ast, pattern_ast, canon_pattern_ast,
                   pattern_canonicalizer, yielded, out, nNext, nSearchCanon,
                   nCandCanon, stageLog, equivVars, raceVars, markVars>>

\* line 108
ParseSearch ==
    /\ pc = "parse_search"
    /\ LET r == create_pattern_object(search_pattern)
       IN  IF r.ok
           THEN /\ search_pattern_ast' = r.ast
                /\ pc' = "get_canonicalizer"
                /\ out' = out
           ELSE /\ search_pattern_ast' = search_pattern_ast
                /\ pc' = "error"
                /\ out' = "ParseError"
    /\ UNCHANGED <<g_pattern_canonicalizer, search_pattern, patterns, idx, pattern,
                   canon_search_pattern_ast, pattern_ast, canon_pattern_ast,
                   pattern_canonicalizer, yielded, nNext, nSearchCanon, nCandCanon,
                   stageLog, equivVars, raceVars, markVars>>

\* line 112
GetCanonicalizer ==
    /\ pc = "get_canonicalizer"
    /\ pattern_canonicalizer' = get_pattern_canonicalizer(g_pattern_canonicalizer)
    /\ g_pattern_canonicalizer' = pattern_canonicalizer'
    /\ pc' = "canon_search"
    /\ UNCHANGED <<search_pattern, patterns, idx, pattern, search_pattern_ast,
                   canon_search_pattern_ast, pattern_ast, canon_pattern_ast,
                   yielded, out, nNext, nSearchCanon, nCandCanon, stageLog,
                   equivVars, raceVars, markVars>>

\* lines 113-115
CanonSearch ==
    /\ pc = "canon_search"
    /\ LET r == Transform(pattern_canonicalizer, search_pattern_ast)
       IN  /\ stageLog' = r.log
           /\ IF r.err = "none"
              THEN /\ canon_search_pattern_ast' = r.ast
                   /\ pc' = "loop"
                   /\ out' = out
              ELSE /\ canon_search_pattern_ast' = canon_search_pattern_ast
                   /\ pc' = "error"
                   /\ out' = r.err
    /\ nSearchCanon' = nSearchCanon + 1
    /\ UNCHANGED <<g_pattern_canonicalizer, search_pattern, patterns, idx, pattern,
                   search_pattern_ast, pattern_ast, canon_pattern_ast,
                   pattern_canonicalizer, yielded, nNext, nCandCanon, equivVars, raceVars, markVars>>

\* line 117: the for statement asks the candidate sequence for its next item
PullCandidate ==
    /\ pc = "loop"
    /\ IF idx < Len(patterns)
       THEN /\ idx' = idx + 1
            /\ pattern' = patterns[idx + 1]
            /\ pc' = "parse_candidate"
            /\ out' = out
       ELSE /\ idx' = idx
            /\ pattern' = pattern
            /\ pc' = "done"
            /\ out' = "StopIteration"
    /\ UNCHANGED <<g_pattern_canonicalizer, search_pattern, patterns,
                   search_pattern_ast, canon_search_pattern_ast, pattern_ast,
                   canon_pattern_ast, pattern_canonicalizer, yielded, nNext,
                   nSearchCanon, nCandCanon, stageLog, equivVars, raceVars, markVars>>

\* variant: an invalid candidate is skipped and the scan goes on
ParseCandidateSkipsInvalid ==
    /\ pc = "parse_candidate"
    /\ LET r == create_pattern_object(pattern)
       IN  IF r.ok
           THEN /\ pattern_ast' = r.ast
                /\ pc' = "canon_candidate"
           ELSE /\ pattern_ast' = pattern_ast
                /\ pc' = "loop"
    /\ UNCHANGED <<g_pattern_canonicalizer, search_pattern, patterns, idx, pattern,
                   search_pattern_ast, canon_search_pattern_ast, canon_pattern_ast,
                   pattern_canonicalizer, yielded, out, nNext, nSearchCanon,
                   nCandCanon, stageLog, equivVars, raceVars, markVars>>

\* lines 118-120
ParseCandidate ==
    /\ pc = "parse_candidate"
    /\ LET r == create_pattern_object(pattern)
       IN  IF r.ok
           THEN /\ pattern_ast' = r.ast
                /\ pc' = "canon_candidate"
                /\ out' = out
           ELSE /\ pattern_ast' = pattern_ast
                /\ pc' = "error"
                /\ out' = "ParseError"
    /\ UNCHANGED <<g_pattern_canonicalizer, search_pattern, patterns, idx, pattern,
                   search_pattern_ast, canon_search_pattern_ast, canon_pattern_ast,
                   pattern_canonicalizer, yielded, nNext, nSearchCanon, nCandCanon,
                   stageLog, equivVars, raceVars, markVars>>

\* variant: the search pattern is canonicalized again for every candidate,
\* as a loop over equivalent_patterns would
CanonCandidateRecanonicalizes ==
    /\ pc = "canon_candidate"
    /\ LET s == Transform(pattern_canonicalizer, search_pattern_ast)
           r == Transform(pattern_canonicalizer, pattern_ast)
       IN  /\ stageLog' = r.log
           /\ IF r.err = "none"
              THEN /\ canon_search_pattern_ast' = s.ast
                   /\ canon_pattern_ast' = r.ast
                   /\ pc' = "compare"
                   /\ out' = out
              ELSE /\ canon_search_pattern_ast' = canon_search_pattern_ast
                   /\ canon_pattern_ast' = canon_pattern_ast
                   /\ pc' = "error"
                   /\ out' = r.err
    /\ nSearchCanon' = nSearchCanon + 1
    /\ nCandCanon' = nCandCanon + 1
    /\ UNCHANGED <<g_pattern_canonicalizer, search_pattern, patterns, idx, pattern,
                   search_pattern_ast, pattern_ast, pattern_canonicalizer, yielded,
                   nNext, equivVars, raceVars, markVars>>

\* line 121
CanonCandidate ==
    /\ pc = "canon_candidate"
    /\ LET r == Transform(pattern_canonicalizer, pattern_ast)
       IN  /\ stageLog' = r.log
           /\ IF r.err = "none"
              THEN /\ canon_pattern_ast' = r.ast
                   /\ pc' = "compare"
                   /\ out' = out
              ELSE /\ canon_pattern_ast' = canon_pattern_ast
                   /\ pc' = "error"
                   /\ out' = r.err
    /\ nCandCanon' = nCandCanon + 1
    /\ UNCHANGED <<g_pattern_canonicalizer, search_pattern, patterns, idx, pattern,
                   search_pattern_ast, canon_search_pattern_ast, pattern_ast,
                   pattern_canonicalizer, yielded, nNext, nSearchCanon, equivVars, raceVars, markVars>>

\* variant: a match is delivered but the scan does not wait for the next
\* request
CompareAndYieldEager ==
    /\ pc = "compare"
    /\ LET result == observation_expression_cmp(canon_search_pattern_ast,
                                                canon_pattern_ast)
       IN  IF Matches(result)
           THEN /\ yielded' = Append(yielded, pattern)
                /\ out' = "match"
           ELSE /\ yielded' = yielded
                /\ out' = out
    /\ pc' = "loop"
    /\ UNCHANGED <<g_pattern_canonicalizer, search_pattern, patterns, idx, pattern,
                   search_pattern_ast, canon_search_pattern_ast, pattern_ast,
                   canon_pattern_ast, pattern_canonicalizer, nNext, nSearchCanon,
                   nCandCanon, stageLog, equivVars, raceVars, markVars>>

\* lines 123-128: compare; on "equal" yield the candidate text and suspend
CompareAndYield ==
    /\ pc = "compare"
    /\ LET result == observation_expression_cmp(canon_search_pattern_ast,
                                                canon_pattern_ast)
       IN  IF Matches(result)
           THEN /\ yielded' = Append(yielded, pattern)
                /\ out' = "match"
                /\ pc' = "yielded"
           ELSE /\ yielded' = yielded
                /\ out' = out
                /\ pc' = "loop"
    /\ UNCHANGED <<g_pattern_canonicalizer, search_pattern, patterns, idx, pattern,
                   search_pattern_ast, canon_search_pattern_ast, pattern_ast,
                   canon_pattern_ast, pattern_canonicalizer, nNext, nSearchCanon,
                   nCandCanon, stageLog, equivVars, raceVars, markVars>>

NextFind ==
    \/ CallFind
    \/ NextCall
    \/ ParseSearch
    \/ GetCanonicalizer
    \/ CanonSearch
    \/ PullCandidate
    \/ ParseCandidate
    \/ CanonCandidate
    \/ CompareAndYield

\* ------------------------------------------------------------------------
\* equivalent_patterns, called on (pattern1, pattern2) and then on the
\* swapped pair
\* ------------------------------------------------------------------------
InitEquiv ==
    /\ g_pattern_canonicalizer = NoCanonicalizer
    /\ pattern1 \in Corpus
    /\ pattern2 \in Corpus
    /\ EquivIdle
    /\ search_pattern = <<>> /\ patterns = <<>> /\ FindIdle
    /\ RaceIdle
    /\ MarkIdle

\* lines 73-78
EquivParse ==
    /\ eq_pc = "start"
    /\ IF Parseable(pattern1) /\ Parseable(pattern2)
       THEN /\ patt_ast1' = create_pattern_object(pattern1).ast
            /\ patt_ast2' = create_pattern_object(pattern2).ast
            /\ eq_pc' = "get_canonicalizer"
            /\ eq_ret' = eq_ret
       ELSE /\ patt_ast1' = patt_ast1
            /\ patt_ast2' = patt_ast2
            /\ eq_pc' = "returned"
            /\ eq_ret' = "ParseError"
    /\ UNCHANGED <<g_pattern_canonicalizer, pattern1, pattern2, eq_round, eq_c1,
                   eq_c2, eq_prev, findVars, raceVars, markVars>>

\* line 80
EquivGetCanonicalizer ==
    /\ eq_pc = "get_canonicalizer"
    /\ g_pattern_canonicalizer' = get_pattern_canonicalizer(g_pattern_canonicalizer)
    /\ eq_pc' = "canon1"
    /\ UNCHANGED <<pattern1, pattern2, eq_round, patt_ast1, patt_ast2, eq_c1, eq_c2,
                   eq_ret, eq_prev, findVars, raceVars, markVars>>

\* line 81
EquivCanon1 ==
    /\ eq_pc = "canon1"
    /\ eq_c1' = Transform(g_pattern_canonicalizer, patt_ast1)
    /\ IF eq_c1'.err = "none"
       THEN eq_pc' = "canon2" /\ eq_ret' = eq_ret
       ELSE eq_pc' = "returned" /\ eq_ret' = eq_c1'.err
    /\ UNCHANGED <<g_pattern_canonicalizer, pattern1, pattern2, eq_round, patt_ast1,
                   patt_ast2, eq_c2, eq_prev, findVars, raceVars, markVars>>

\* line 82
EquivCanon2 ==
    /\ eq_pc = "canon2"
    /\ eq_c2' = Transform(g_pattern_canonicalizer, patt_ast2)
    /\ IF eq_c2'.err = "none"
       THEN eq_pc' = "compare" /\ eq_ret' = eq_ret
       ELSE eq_pc' = "returned" /\ eq_ret' = eq_c2'.err
    /\ UNCHANGED <<g_pattern_canonicalizer, pattern1, pattern2, eq_round, patt_ast1,
                   patt_ast2, eq_c1, eq_prev, findVars, raceVars, markVars>>

\* lines 84-86
EquivReturn ==
    /\ eq_pc = "compare"
    /\ eq_ret' = IF ReturnValue(observation_expression_cmp(eq_c1.ast, eq_c2.ast))
                 THEN "True" ELSE "False"
    /\ eq_pc' = "returned"
    /\ UNCHANGED <<g_pattern_canonicalizer, pattern1, pattern2, eq_round, patt_ast1,
                   patt_ast2, eq_c1, eq_c2, eq_prev, findVars, raceVars, markVars>>

\* the caller calls again with the two arguments swapped
EquivSwappedCall ==
    /\ eq_pc = "returned"
    /\ eq_round = 1
    /\ eq_round' = 2
    /\ pattern1' = pattern2
    /\ pattern2' = pattern1
    /\ eq_prev' = eq_ret
    /\ eq_ret' = "none"
    /\ eq_pc' = "start"
    /\ patt_ast1' = NoTree /\ patt_ast2' = NoTree
    /\ eq_c1' = NotRun /\ eq_c2' = NotRun
    /\ UNCHANGED <<g_pattern_canonicalizer, findVars, raceVars, markVars>>

NextEquiv ==
    \/ EquivParse
    \/ EquivGetCanonicalizer
    \/ EquivCanon1
    \/ EquivCanon2
    \/ EquivReturn
    \/ EquivSwappedCall

\* ------------------------------------------------------------------------
\* _get_pattern_canonicalizer entered by several threads
\* ------------------------------------------------------------------------
InitRace ==
    /\ g_pattern_canonicalizer = NoCanonicalizer
    /\ RaceIdle
    /\ search_pattern = <<>> /\ patterns = <<>> /\ FindIdle
    /\ pattern1 = <<>> /\ pattern2 = <<>> /\ EquivIdle
    /\ MarkIdle

\* line 38: the test of the global
TestGlobal(t) ==
    /\ t_pc[t] = "start"
    /\ t_pc' = [t_pc EXCEPT ![t] = IF g_id = 0 THEN "construct" ELSE "return"]
    /\ UNCHANGED <<g_pattern_canonicalizer, g_id, t_new, t_ret, nConstructed,
                   nAssigned, findVars, equivVars, markVars>>

\* lines 39-55, right-hand sides: the transformers are constructed
Construct(t) ==
    /\ t_pc[t] = "construct"
    /\ nConstructed' = nConstructed + 1
    /\ t_new' = [t_new EXCEPT ![t] = nConstructed + 1]
    /\ t_pc' = [t_pc EXCEPT ![t] = "store"]
    /\ UNCHANGED <<g_pattern_canonicalizer, g_id, t_ret, nAssigned, findVars,
                   equivVars, markVars>>

\* line 52: the store into the global
StoreGlobal(t) ==
    /\ t_pc[t] = "store"
    /\ g_id' = t_new[t]
    /\ g_pattern_canonicalizer' = NewPatternCanonicalizer
    /\ nAssigned' = nAssigned + 1
    /\ t_pc' = [t_pc EXCEPT ![t] = "return"]
    /\ UNCHANGED <<t_new, t_ret, nConstructed, findVars, equivVars, markVars>>

\* line 57: return the global
ReturnGlobal(t) ==
    /\ t_pc[t] = "return"
    /\ t_ret' = [t_ret EXCEPT ![t] = g_id]
    /\ t_pc' = [t_pc EXCEPT ![t] = "done"]
    /\ UNCHANGED <<g_pattern_canonicalizer, g_id, t_new, nConstructed, nAssigned,
                   findVars, equivVars, markVars>>

NextRace ==
    \E t \in Threads :
        \/ TestGlobal(t)
        \/ Construct(t)
        \/ StoreGlobal(t)
        \/ ReturnGlobal(t)

\* ------------------------------------------------------------------------
\* markings: selectors are strings, here sequences of letters, and
\* startswith is the prefix relation
\* ------------------------------------------------------------------------
MarkingIds == {"m1", "m2"}

Selectors == {<<"a">>, <<"a", "b">>, <<"c">>}

startswith(s, prefix) ==
    /\ Len(prefix) <= Len(s)
    /\ \A i \in 1..Len(prefix) : s[i] = prefix[i]

SelectorMatch(user_selector, marking_selector, inh, desc) ==
    \/ user_selector = marking_selector
    \/ startswith(user_selector, marking_selector) /\ inh
    \/ startswith(marking_selector, user_selector) /\ desc

\* granular_markings.get_markings(obj, selectors, inherited, descendants)
granular_get_markings(gm, sels, inh, desc) ==
    {g[2] : g \in {h \in gm : \E u \in sels : SelectorMatch(u, h[1], inh, desc)}}

\* granular_markings.is_marked(obj, marking, selectors, inherited, descendants)
granular_is_marked(gm, mk, sels, inh, desc) ==
    IF mk # {}
    THEN \E m \in mk : m \in granular_get_markings(gm, sels, inh, desc)
    ELSE granular_get_markings(gm, sels, inh, desc) # {}

\* object_markings.get_markings(obj)
object_get_markings(refs) == refs

\* object_markings.is_marked(obj, marking)
object_is_marked(refs, mk) ==
    IF mk # {} THEN \E m \in mk : m \in refs ELSE refs # {}

\* markings.get_markings(obj, selectors, inherited, descendants), selectors
\* not None
get_markings(refs, gm, sels, inh, desc) ==
    LET results == granular_get_markings(gm, sels, inh, desc)
    IN  IF inh THEN results \cup object_get_markings(refs) ELSE results

\* markings.is_marked(obj, marking, selectors, inherited, descendants),
\* selectors not None
is_marked(refs, gm, mk, sels, inh, desc) ==
    LET result == granular_is_marked(gm, mk, sels, inh, desc)
        granular_marks == granular_get_markings(gm, sels, FALSE, FALSE)
        object_marks == object_get_markings(refs)
        result2 == IF granular_marks # {}
                   THEN granular_is_marked(gm, granular_marks, sels, inh, desc)
                   ELSE result
    IN  IF inh THEN result2 \/ object_is_marked(refs, object_marks) ELSE result

InitMark ==
    /\ g_pattern_canonicalizer = NoCanonicalizer
    /\ object_marking_refs \in SUBSET MarkingIds
    /\ granular_markings \in SUBSET (Selectors \X MarkingIds)
    /\ marking \in (SUBSET MarkingIds) \ {{}}
    /\ selectors \in (SUBSET Selectors) \ {{}}
    /\ inherited \in BOOLEAN
    /\ descendants \in BOOLEAN
    /\ m_pc = "idle" /\ m_result = FALSE
    /\ search_pattern = <<>> /\ patterns = <<>> /\ FindIdle
    /\ pattern1 = <<>> /\ pattern2 = <<>> /\ EquivIdle
    /\ RaceIdle

IsMarkedCall ==
    /\ m_pc = "idle"
    /\ m_result' = is_marked(object_marking_refs, granular_markings, marking,
                             selectors, inherited, descendants)
    /\ m_pc' = "returned"
    /\ UNCHANGED <<g_pattern_canonicalizer, object_marking_refs, granular_markings,
                   marking, selectors, inherited, descendants, findVars, equivVars,
                   raceVars>>

NextMark == IsMarkedCall

\* ------------------------------------------------------------------------
\* Specifications
\* ------------------------------------------------------------------------
vars == <<g_pattern_canonicalizer, findVars, equivVars, raceVars, markVars>>

SpecFind == InitFind /\ [][NextFind]_vars

SpecEquiv == InitEquiv /\ [][NextEquiv]_vars

SpecRace == InitRace /\ [][NextRace]_vars

SpecMark == InitMark /\ [][NextMark]_vars

\* ------------------------------------------------------------------------
\* Properties of find_equivalent_patterns (SpecFind)
\* ------------------------------------------------------------------------
\* [c for c in L if equivalent_patterns(search_pattern, c)]
EquivalentOnes(L) ==
    LET Test(c) == equivalent_patterns(search_pattern, c, g_pattern_canonicalizer).ret = "True"
    IN  SelectSeq(L, Test)

\* C1: the values yielded are exactly the candidates c, in input order and
\* with duplicates kept, for which equivalent_patterns(search_pattern, c)
\* is true: at every yield for the candidates pulled so far, and at
\* exhaustion for the whole candidate sequence; what is yielded is the
\* candidate text
C1_StreamingCorrectness ==
    /\ pc = "yielded" => /\ yielded = EquivalentOnes(SubSeq(patterns, 1, idx))
                         /\ yielded[Len(yielded)] = patterns[idx]
    /\ pc = "done" => yielded = EquivalentOnes(patterns)
    /\ \A i \in DOMAIN yielded : yielded[i] \in Corpus

C1_Witness ==
    /\ pc = "done"
    /\ Len(patterns) >= 2
    /\ Len(yielded) >= 1
    /\ Len(yielded) < Len(patterns)
    /\ \E i \in DOMAIN yielded : yielded[i] # search_pattern

\* C2: in one call the pipeline runs on the search pattern at most once, and
\* exactly once from the time the scan starts; it has run once per candidate
\* pulled and parsed, so that a call consumed to exhaustion has run it once
\* on the search pattern and Len(patterns) times on candidates
C2_SearchCanonicalizedOnce ==
    /\ nSearchCanon <= 1
    /\ pc \in {"loop", "parse_candidate", "canon_candidate", "compare",
               "yielded", "done"} => nSearchCanon = 1
    /\ nCandCanon <= idx
    /\ pc \in {"loop", "compare", "yielded", "done"} => nCandCanon = idx
    /\ pc = "done" => nSearchCanon = 1 /\ nCandCanon = Len(patterns)

C2_Witness ==
    /\ pc = "done"
    /\ Len(patterns) >= 2
    /\ Len(yielded) >= 1
    /\ nSearchCanon = 1

\* C3: a candidate is pulled only while a request for the next match is
\* outstanding (fewer matches delivered than next() calls made); when the
\* k-th match is yielded it answers the k-th request and the candidate last
\* pulled is that match; while the generator is not running nothing is pulled
C3_PullDriven ==
    /\ [](pc = "yielded" => /\ Len(yielded) = nNext
                            /\ patterns[idx] = yielded[Len(yielded)])
    /\ [][idx' # idx => Len(yielded) < nNext /\ idx' = idx + 1]_vars
    /\ [][~Running => idx' = idx /\ yielded' = yielded /\ nCandCanon' = nCandCanon]_vars

C3_Witness ==
    /\ pc = "yielded"
    /\ Len(yielded) >= 1
    /\ idx < Len(patterns)

\* C4 as stated: with a malformed search pattern the parser's error reaches
\* the caller at the call itself, before any element is pulled
C4_ErrorAtTheCall ==
    (pc # "idle" /\ ~Parseable(search_pattern)) => out = "ParseError"

\* C4 amended: with a malformed search pattern the call itself returns a
\* generator without raising; the first next() raises the parser's error,
\* and no candidate is ever pulled, parsed or canonicalized
C4_ErrorAtFirstPull ==
    ~Parseable(search_pattern) =>
        /\ pc = "created" => out = "none" /\ nNext = 0
        /\ idx = 0 /\ nCandCanon = 0 /\ nSearchCanon = 0
        /\ pattern_ast = NoTree /\ yielded = <<>>
        /\ (nNext >= 1 /\ ~Running) => pc = "error"
        /\ (nNext = 1 /\ ~Running) => out = "ParseError"

C4_Witness ==
    /\ ~Parseable(search_pattern)
    /\ pc = "error"
    /\ out = "ParseError"
    /\ nNext = 1
    /\ Len(patterns) >= 1

\* C5: once a malformed candidate has been pulled and parsed, the stream has
\* ended with the parser's error at that pull: the matches among the earlier
\* candidates have been yielded in order, the malformed candidate was not
\* canonicalized, and from then on nothing more is pulled or yielded
C5_MalformedCandidateAborts ==
    /\ []((idx >= 1 /\ pc # "parse_candidate" /\ ~Parseable(patterns[idx])) =>
            /\ pc = "error"
            /\ out \in {"ParseError", "StopIteration"}
            /\ yielded = EquivalentOnes(SubSeq(patterns, 1, idx - 1))
            /\ nCandCanon = idx - 1)
    /\ [][(pc = "parse_candidate" /\ ~Parseable(pattern)) =>
            (pc' = "error" /\ out' = "ParseError" /\ nNext' = nNext)]_vars
    /\ [][pc = "error" => (pc' = "error" /\ idx' = idx /\ yielded' = yielded)]_vars

C5_Witness ==
    /\ pc = "error"
    /\ idx >= 2
    /\ ~Parseable(patterns[idx])
    /\ Len(yielded) >= 1
    /\ out = "StopIteration"

\* ------------------------------------------------------------------------
\* Properties of equivalent_patterns (SpecEquiv)
\* ------------------------------------------------------------------------
\* C6: for parseable pattern1 and pattern2, equivalent_patterns on the
\* swapped pair gives what it gave on the pair, and the comparator says
\* "equal" on the two canonical forms in one order exactly when it does in
\* the other
C6_Symmetric ==
    (eq_round = 2 /\ eq_pc = "returned" /\ Parseable(pattern1) /\ Parseable(pattern2)) =>
        /\ eq_ret = eq_prev
        /\ eq_ret \in {"True", "False"} =>
              /\ (eq_ret = "True") <=> (observation_expression_cmp(eq_c1.ast, eq_c2.ast) = 0)
              /\ (observation_expression_cmp(eq_c1.ast, eq_c2.ast) = 0)
                    <=> (observation_expression_cmp(eq_c2.ast, eq_c1.ast) = 0)

C6_Witness ==
    /\ eq_round = 2
    /\ eq_pc = "returned"
    /\ eq_ret = "True"
    /\ eq_prev = "True"
    /\ pattern1 # pattern2

\* ------------------------------------------------------------------------
\* Properties of the pipeline
\* ------------------------------------------------------------------------
Stages(log) == [i \in DOMAIN log |-> log[i].stage]

RECURSIVE Simplifications(_)
Simplifications(n) ==
    IF n = 0 THEN <<>>
    ELSE <<"Flatten", "OrderDedupe", "Absorption">> \o Simplifications(n - 1)

\* a Settle that returned after n applications of the chain
Settled(n) == Simplifications(n) \o <<"Settle">>

\* the stages of a pipeline run that returned
CompleteRun(names) ==
    \E k, m \in 1..MaxSettleIter :
        names = <<"CanonComp">> \o Settled(k) \o <<"DNF">> \o Settled(m)

\* the stages of a pipeline run that one of the two Settles ended by raising
AbortedRun(names) ==
    \/ names = <<"CanonComp">> \o Simplifications(MaxSettleIter)
    \/ \E k \in 1..MaxSettleIter :
          names = <<"CanonComp">> \o Settled(k) \o <<"DNF">>
                     \o Simplifications(MaxSettleIter)

AtFixedPoint(t) ==
    ~Transform(ChainTransformer(<<Basic("Flatten"), Basic("OrderDedupe"),
                                  Basic("Absorption")>>), t).changed

\* entry i of log is the return of a Settle: the tree is the one the last
\* application of the chain produced, that application reported no change,
\* the chain would report none on it, and the overall flag says whether an
\* earlier application of this Settle changed the tree
SettleReturn(log, i) ==
    /\ i > 3
    /\ log[i].stage = "Settle"
    /\ log[i].out = log[i - 1].out
    /\ \A j \in (i - 3)..(i - 1) : ~log[j].changed
    /\ AtFixedPoint(log[i].out)
    /\ log[i].changed <=> (i > 4 /\ log[i - 4].stage = "Absorption")
    /\ log[i].changed => \E j \in (i - 6)..(i - 4) : log[j].changed

\* the last MaxSettleIter applications of the chain in log all changed the tree
SettleRaise(log) ==
    /\ Len(log) >= 3 * MaxSettleIter
    /\ \A n \in 0..(MaxSettleIter - 1) :
          \E j \in (Len(log) - 3 * n - 2)..(Len(log) - 3 * n) : log[j].changed

\* a pipeline run that returned: the stage before DNF and the last stage are
\* Settle returns; one that raised: a Settle gave up at the iteration bound
SettleOutcomes(log, raised) ==
    IF raised
    THEN /\ log[Len(log)].stage = "Absorption"
         /\ SettleRaise(log)
         /\ \A i \in DOMAIN log : log[i].stage = "Settle" => SettleReturn(log, i)
    ELSE /\ SettleReturn(log, Len(log))
         /\ \E i \in DOMAIN log : log[i].stage = "DNF" /\ SettleReturn(log, i - 1)

\* C10: in every pipeline run of equivalent_patterns each of the two Settle
\* invocations either returns a tree on which the last application of the
\* chain reported no change (and on which the chain reports no change), with
\* an overall changed flag that tells whether some application changed the
\* tree, or raises NonConvergenceError after MaxSettleIter applications that
\* all changed the tree; a run ends in no other way
C10_SettleOutcomes ==
    eq_pc = "returned" =>
        /\ eq_ret \in {"True", "False", "ParseError", "NonConvergenceError"}
        /\ eq_ret \in {"True", "False"} =>
              SettleOutcomes(eq_c1.log, FALSE) /\ SettleOutcomes(eq_c2.log, FALSE)
        /\ eq_ret = "NonConvergenceError" =>
              IF eq_c2.log = <<>> THEN SettleOutcomes(eq_c1.log, TRUE)
              ELSE SettleOutcomes(eq_c1.log, FALSE) /\ SettleOutcomes(eq_c2.log, TRUE)
        /\ eq_ret = "ParseError" => eq_c1.log = <<>> /\ eq_c2.log = <<>>

C10_Witness ==
    /\ eq_pc = "returned"
    /\ eq_ret \in {"True", "False"}
    /\ \E i \in DOMAIN eq_c1.log : eq_c1.log[i].stage = "Settle" /\ eq_c1.log[i].changed
    /\ \E i \in DOMAIN eq_c2.log : eq_c2.log[i].stage = "Settle" /\ ~eq_c2.log[i].changed

\* ------------------------------------------------------------------------
\* Properties of _get_pattern_canonicalizer under threads (SpecRace)
\* ------------------------------------------------------------------------
\* C7: the pipeline is constructed at most once, the global is assigned at
\* most once, and all callers that returned got the same object
C7_ConstructedOnce ==
    /\ nConstructed <= 1
    /\ nAssigned <= 1
    /\ \A t, u \in Threads :
          (t_pc[t] = "done" /\ t_pc[u] = "done") => t_ret[t] = t_ret[u]

\* ------------------------------------------------------------------------
\* Properties of markings.is_marked (SpecMark)
\* ------------------------------------------------------------------------
\* C8: with selectors given and a non-empty marking list, is_marked returns
\* True exactly when some identifier of the list is among the markings of
\* the selected fields (granular, and with inherited also the inherited
\* granular and the object level ones)
C8_MarkedIffSomeMarkingApplies ==
    m_pc = "returned" =>
        (m_result <=> (marking \cap get_markings(object_marking_refs, granular_markings,
                                                 selectors, inherited, descendants) # {}))

====
